---- MODULE Spec2Model ----
(***************************************************************************)
(* A model of the fixed-bucket histogram package (histogram.go) and of its *)
(* boundary helper Range (bucketboundaries.go).                            *)
(*                                                                         *)
(* Slices are modelled as addresses of backing arrays in `mem` (address 0  *)
(* is the nil slice), *Histogram pointers as indices into `heap`, so that  *)
(* sharing between histograms (New keeps the caller's slice, Copy must     *)
(* not share) is visible.  int64 is modelled as Width-bit two's complement *)
(* with wrap-around.                                                       *)
(***************************************************************************)
EXTENDS Integers, Sequences, FiniteSets, TLC

VARIABLES
    mem,      \* backing arrays of the slices: address -> sequence of int64
    heap,     \* the Histogram structs: pointer -> struct
    origin,   \* per histogram: 0 when New built it, else the histogram Copy took it from
    last,     \* the most recent call: operation, arguments, outcome, result
    calls,    \* number of calls made so far
    threads,  \* the goroutines calling AtomicIncrement: position, argument, locals
    rng       \* a call of Range: its arguments and what it returned

vars == <<mem, heap, origin, last, calls, threads, rng>>

---------------------------------------------------------------------------
(* Bounds of the model *)

Width == 4
MaxHist == 2
MaxCalls == 5
MaxLen == 3
MaxThreads == 3

---------------------------------------------------------------------------
(* int64, scaled to Width bits *)

MinInt64 == -(2 ^ (Width - 1))
MaxInt64 == 2 ^ (Width - 1) - 1
Int64 == MinInt64 .. MaxInt64

Wrap(x) == ((x - MinInt64) % (2 ^ Width)) + MinInt64

(* inputs the callers are given in the model *)
SampleValues == {-1, 1, 2}
BoundaryValues == (-1) .. MaxLen

RECURSIVE SeqsUpTo(_, _)
SeqsUpTo(S, n) ==
    IF n = 0 THEN {<<>>}
    ELSE LET shorter == SeqsUpTo(S, n - 1)
         IN  shorter \cup {Append(s, x) : s \in {t \in shorter : Len(t) = n - 1}, x \in S}

(* a slice argument: nil, or a slice with the given elements *)
NilSlice == [isNil |-> TRUE, elems |-> <<>>]
SliceOf(s) == [isNil |-> FALSE, elems |-> s]
BoundaryInputs == {NilSlice} \cup {SliceOf(s) : s \in SeqsUpTo(BoundaryValues, MaxLen)}

(* the slices the single-threaded client constructs histograms from *)
ClientInputs == {NilSlice, SliceOf(<<1>>), SliceOf(<<2>>), SliceOf(<<1, 2>>), SliceOf(<<2, 1>>)}

---------------------------------------------------------------------------
(* Memory *)

State == [mem |-> mem, heap |-> heap]

len(st, s) == IF s = 0 THEN 0 ELSE Len(st.mem[s])
Load(st, s, i) == st.mem[s][i + 1]
Store(st, s, i, v) == [st EXCEPT !.mem[s][i + 1] = v]
InRange(st, s, i) == 0 <= i /\ i < len(st, s)

make(n) == [i \in 1 .. n |-> 0]

(* the values a histogram's accessors expose *)
NoView == [bucketBoundaries |-> <<>>, bucketCounts |-> <<>>, bucketTotals |-> <<>>,
           numSamples |-> 0, total |-> 0]
View(st, p) ==
    LET h == st.heap[p]
    IN  [bucketBoundaries |-> IF h.bucketBoundaries = 0 THEN <<>> ELSE st.mem[h.bucketBoundaries],
         bucketCounts |-> st.mem[h.bucketCounts],
         bucketTotals |-> st.mem[h.bucketTotals],
         numSamples |-> h.numSamples,
         total |-> h.total]

---------------------------------------------------------------------------
(* What a call returns: the state it leaves, how it ended, what it returned *)

Result(st, outcome, ret) == [st |-> st, outcome |-> outcome, ret |-> ret]

(* a new backing array, at the next free address *)
Alloc(st, arr) == [st EXCEPT !.mem = Append(@, arr)]

---------------------------------------------------------------------------
\* func New(bucketBoundaries []int64): a histogram pointer, or an error

\* mutant: equal neighbours pass the check
RECURSIVE NonDecreasingFrom(_, _, _)
NonDecreasingFrom(st, s, i) ==
    IF i < len(st, s) - 1
    THEN IF Load(st, s, i) > Load(st, s, i + 1)
         THEN FALSE
         ELSE NonDecreasingFrom(st, s, i + 1)
    ELSE TRUE

RECURSIVE StrictlyIncreasingFrom(_, _, _)
StrictlyIncreasingFrom(st, s, i) ==
    IF i < len(st, s) - 1
    THEN IF Load(st, s, i) >= Load(st, s, i + 1)
         THEN FALSE
         ELSE StrictlyIncreasingFrom(st, s, i + 1)
    ELSE TRUE

\* mutant: bucketTotals made as long as the boundaries
NewShortTotals(st, s) ==
    IF s = 0
    THEN Result(st, "emptyError", <<>>)
    ELSE IF ~StrictlyIncreasingFrom(st, s, 0)
    THEN Result(st, "invalidBoundariesError", <<>>)
    ELSE LET n == len(st, s) + 1
             s1 == Alloc(st, make(n))
             counts == Len(s1.mem)
             s2 == Alloc(s1, make(n - 1))
             totals == Len(s2.mem)
             h == [bucketBoundaries |-> s, bucketCounts |-> counts,
                   bucketTotals |-> totals, numSamples |-> 0, total |-> 0]
             s3 == [s2 EXCEPT !.heap = Append(@, h)]
         IN  Result(s3, "ok", <<Len(s3.heap)>>)

New(st, s) ==
    IF s = 0
    THEN Result(st, "emptyError", <<>>)
    ELSE IF ~StrictlyIncreasingFrom(st, s, 0)
    THEN Result(st, "invalidBoundariesError", <<>>)
    ELSE LET n == len(st, s) + 1
             s1 == Alloc(st, make(n))
             counts == Len(s1.mem)
             s2 == Alloc(s1, make(n))
             totals == Len(s2.mem)
             h == [bucketBoundaries |-> s, bucketCounts |-> counts,
                   bucketTotals |-> totals, numSamples |-> 0, total |-> 0]
             s3 == [s2 EXCEPT !.heap = Append(@, h)]
         IN  Result(s3, "ok", <<Len(s3.heap)>>)

---------------------------------------------------------------------------
\* sort.Search(len(h.bucketBoundaries), func(i) { return h.bucketBoundaries[i] > val })

\* mutant: the comparison made non-strict
SearchPredAtLeast(st, s, i, val) == Load(st, s, i) >= val

SearchPred(st, s, i, val) == Load(st, s, i) > val

RECURSIVE SearchLoop(_, _, _, _, _)
SearchLoop(st, s, val, i, j) ==
    IF i < j
    THEN LET m == (i + j) \div 2
         IN  IF ~SearchPred(st, s, m, val)
             THEN SearchLoop(st, s, val, m + 1, j)
             ELSE SearchLoop(st, s, val, i, m)
    ELSE i

Search(st, p, val) ==
    LET s == st.heap[p].bucketBoundaries
    IN  SearchLoop(st, s, val, 0, len(st, s))

---------------------------------------------------------------------------
\* func (h *Histogram) Increment(val int64)

Increment(st, p, val) ==
    LET index == Search(st, p, val)
        h == st.heap[p]
        s1 == Store(st, h.bucketCounts, index, Wrap(Load(st, h.bucketCounts, index) + 1))
        s2 == Store(s1, h.bucketTotals, index, Wrap(Load(s1, h.bucketTotals, index) + val))
        s3 == [s2 EXCEPT !.heap[p].numSamples = Wrap(@ + 1)]
        s4 == [s3 EXCEPT !.heap[p].total = Wrap(@ + val)]
    IN  Result(s4, "ok", <<>>)

---------------------------------------------------------------------------
\* func (h *Histogram) AtomicIncrement(val int64): four atomic adds

AtomicAddInt64(old, delta) == Wrap(old + delta)

\* mutant: the add to the bucket count left out
AddBucketCountLost(st, p, index) == st

AddBucketCount(st, p, index) ==
    LET s == st.heap[p].bucketCounts
    IN  Store(st, s, index, AtomicAddInt64(Load(st, s, index), 1))

\* mutant: the bucket total grows by one, not by the value
AddBucketTotalOfOne(st, p, index, val) ==
    LET s == st.heap[p].bucketTotals
    IN  Store(st, s, index, AtomicAddInt64(Load(st, s, index), 1))

AddBucketTotal(st, p, index, val) ==
    LET s == st.heap[p].bucketTotals
    IN  Store(st, s, index, AtomicAddInt64(Load(st, s, index), val))

\* mutant: the add to the global count left out
AddNumSamplesLost(st, p) == st

\* mutant: the global count grows by two
AddNumSamplesTwice(st, p) == [st EXCEPT !.heap[p].numSamples = AtomicAddInt64(@, 2)]

AddNumSamples(st, p) == [st EXCEPT !.heap[p].numSamples = AtomicAddInt64(@, 1)]

AddTotal(st, p, val) == [st EXCEPT !.heap[p].total = AtomicAddInt64(@, val)]

AtomicIncrement(st, p, val) ==
    LET index == Search(st, p, val)
        s1 == AddBucketCount(st, p, index)
        s2 == AddBucketTotal(s1, p, index, val)
        s3 == AddNumSamples(s2, p)
        s4 == AddTotal(s3, p, val)
    IN  Result(s4, "ok", <<>>)

---------------------------------------------------------------------------
\* func (h *Histogram) BucketRanges(index int) (int64, int64)
\* An index expression outside the slice is a run-time panic.

\* mutant: the low bound of an interior bucket read at index, not index - 1
BucketRangesLowAtIndex(st, p, index) ==
    LET s == st.heap[p].bucketBoundaries
    IN  IF index < 0 \/ index > len(st, s)
        THEN Result(st, "panic", <<>>)
        ELSE IF index = 0
        THEN IF InRange(st, s, index)
             THEN Result(st, "ok", <<MinInt64, Load(st, s, index)>>)
             ELSE Result(st, "panic", <<>>)
        ELSE IF index = len(st, s)
        THEN IF InRange(st, s, index - 1)
             THEN Result(st, "ok", <<Load(st, s, index - 1), MaxInt64>>)
             ELSE Result(st, "panic", <<>>)
        ELSE IF InRange(st, s, index)
             THEN Result(st, "ok", <<Load(st, s, index), Load(st, s, index)>>)
             ELSE Result(st, "panic", <<>>)

BucketRanges(st, p, index) ==
    LET s == st.heap[p].bucketBoundaries
    IN  IF index < 0 \/ index > len(st, s)
        THEN Result(st, "panic", <<>>)
        ELSE IF index = 0
        THEN IF InRange(st, s, index)
             THEN Result(st, "ok", <<MinInt64, Load(st, s, index)>>)
             ELSE Result(st, "panic", <<>>)
        ELSE IF index = len(st, s)
        THEN IF InRange(st, s, index - 1)
             THEN Result(st, "ok", <<Load(st, s, index - 1), MaxInt64>>)
             ELSE Result(st, "panic", <<>>)
        ELSE IF InRange(st, s, index - 1) /\ InRange(st, s, index)
             THEN Result(st, "ok", <<Load(st, s, index - 1), Load(st, s, index)>>)
             ELSE Result(st, "panic", <<>>)

---------------------------------------------------------------------------
\* The accessors.  A float64 quotient is kept as the exact fraction <<num, den>>.

BucketCount(st, p, index) == Load(st, st.heap[p].bucketCounts, index)

BucketTotal(st, p, index) == Load(st, st.heap[p].bucketTotals, index)

BucketAverage(st, p, index) ==
    IF BucketCount(st, p, index) = 0
    THEN <<0, 1>>
    ELSE <<BucketTotal(st, p, index), BucketCount(st, p, index)>>

Size(st, p) ==
    LET h == st.heap[p]
    IN  IF len(st, h.bucketCounts) # len(st, h.bucketTotals)
        THEN Result(st, "panic", <<>>)
        ELSE Result(st, "ok", <<len(st, h.bucketCounts)>>)

Count(st, p) == st.heap[p].numSamples

Total(st, p) == st.heap[p].total

Average(st, p) ==
    IF st.heap[p].numSamples = 0
    THEN <<0, 1>>
    ELSE <<st.heap[p].total, st.heap[p].numSamples>>

---------------------------------------------------------------------------
\* func (h *Histogram) Clear()

\* mutant: the bucket totals are not reset
RECURSIVE ClearLoopCountsOnly(_, _, _)
ClearLoopCountsOnly(st, p, i) ==
    LET h == st.heap[p]
    IN  IF i < len(st, h.bucketCounts)
        THEN LET s1 == Store(st, h.bucketCounts, i, 0)
                 s3 == [s1 EXCEPT !.heap[p].numSamples = 0]
                 s4 == [s3 EXCEPT !.heap[p].total = 0]
             IN  ClearLoopCountsOnly(s4, p, i + 1)
        ELSE st

RECURSIVE ClearLoop(_, _, _)
ClearLoop(st, p, i) ==
    LET h == st.heap[p]
    IN  IF i < len(st, h.bucketCounts)
        THEN LET s1 == Store(st, h.bucketCounts, i, 0)
                 s2 == Store(s1, h.bucketTotals, i, 0)
                 s3 == [s2 EXCEPT !.heap[p].numSamples = 0]
                 s4 == [s3 EXCEPT !.heap[p].total = 0]
             IN  ClearLoop(s4, p, i + 1)
        ELSE st

Clear(st, p) ==
    LET h == st.heap[p]
    IN  IF len(st, h.bucketCounts) # len(st, h.bucketTotals)
        THEN Result(st, "panic", <<>>)
        ELSE Result(ClearLoop(st, p, 0), "ok", <<>>)

---------------------------------------------------------------------------
\* func (h *Histogram) IncrementFromHistogram(other *Histogram)
\* Each statement reads the memory the statements before it left.

\* mutant: the merge adds the bucket counts but not the bucket totals
RECURSIVE IncrementLoopCountsOnly(_, _, _, _)
IncrementLoopCountsOnly(st, p, o, i) ==
    LET h == st.heap[p]
        other == st.heap[o]
    IN  IF i < len(st, h.bucketCounts)
        THEN LET s1 == Store(st, h.bucketCounts, i,
                             Wrap(Load(st, h.bucketCounts, i) + Load(st, other.bucketCounts, i)))
             IN  IncrementLoopCountsOnly(s1, p, o, i + 1)
        ELSE st

RECURSIVE IncrementLoop(_, _, _, _)
IncrementLoop(st, p, o, i) ==
    LET h == st.heap[p]
        other == st.heap[o]
    IN  IF i < len(st, h.bucketCounts)
        THEN LET s1 == Store(st, h.bucketCounts, i,
                             Wrap(Load(st, h.bucketCounts, i) + Load(st, other.bucketCounts, i)))
                 s2 == Store(s1, h.bucketTotals, i,
                             Wrap(Load(s1, h.bucketTotals, i) + Load(s1, other.bucketTotals, i)))
             IN  IncrementLoop(s2, p, o, i + 1)
        ELSE st

\* mutant: the length check made after the global count was updated
IncrementFromHistogramLateCheck(st, p, o) ==
    LET s0 == [st EXCEPT !.heap[p].numSamples = Wrap(@ + st.heap[o].numSamples)]
    IN  IF len(st, st.heap[o].bucketBoundaries) # len(st, st.heap[p].bucketBoundaries)
        THEN Result(s0, "panic", <<>>)
        ELSE LET s1 == IncrementLoop(s0, p, o, 0)
                 s3 == [s1 EXCEPT !.heap[p].total = Wrap(@ + s1.heap[o].total)]
             IN  Result(s3, "ok", <<>>)

IncrementFromHistogram(st, p, o) ==
    IF len(st, st.heap[o].bucketBoundaries) # len(st, st.heap[p].bucketBoundaries)
    THEN Result(st, "panic", <<>>)
    ELSE LET s1 == IncrementLoop(st, p, o, 0)
             s2 == [s1 EXCEPT !.heap[p].numSamples = Wrap(@ + s1.heap[o].numSamples)]
             s3 == [s2 EXCEPT !.heap[p].total = Wrap(@ + s2.heap[o].total)]
         IN  Result(s3, "ok", <<>>)

---------------------------------------------------------------------------
\* func (h *Histogram) DecrementFromHistogram(other *Histogram)

RECURSIVE DecrementLoop(_, _, _, _)
DecrementLoop(st, p, o, i) ==
    LET h == st.heap[p]
        other == st.heap[o]
    IN  IF i < len(st, h.bucketCounts)
        THEN LET s1 == Store(st, h.bucketCounts, i,
                             Wrap(Load(st, h.bucketCounts, i) - Load(st, other.bucketCounts, i)))
                 s2 == Store(s1, h.bucketTotals, i,
                             Wrap(Load(s1, h.bucketTotals, i) - Load(s1, other.bucketTotals, i)))
             IN  DecrementLoop(s2, p, o, i + 1)
        ELSE st

\* mutant: the global total is not subtracted
DecrementFromHistogramKeepsTotal(st, p, o) ==
    IF len(st, st.heap[o].bucketBoundaries) # len(st, st.heap[p].bucketBoundaries)
    THEN Result(st, "panic", <<>>)
    ELSE LET s1 == DecrementLoop(st, p, o, 0)
             s2 == [s1 EXCEPT !.heap[p].numSamples = Wrap(@ - s1.heap[o].numSamples)]
         IN  Result(s2, "ok", <<>>)

DecrementFromHistogram(st, p, o) ==
    IF len(st, st.heap[o].bucketBoundaries) # len(st, st.heap[p].bucketBoundaries)
    THEN Result(st, "panic", <<>>)
    ELSE LET s1 == DecrementLoop(st, p, o, 0)
             s2 == [s1 EXCEPT !.heap[p].numSamples = Wrap(@ - s1.heap[o].numSamples)]
             s3 == [s2 EXCEPT !.heap[p].total = Wrap(@ - s2.heap[o].total)]
         IN  Result(s3, "ok", <<>>)

---------------------------------------------------------------------------
\* func (h *Histogram) Copy() *Histogram

\* make([]int64, len(src)) followed by copy(dst, src)
Duplicate(st, src) == Alloc(st, [i \in 1 .. len(st, src) |-> Load(st, src, i - 1)])

\* mutant: the copy keeps the original's bucketCounts slice
CopyShallow(st, p) ==
    LET h == st.heap[p]
        s1 == Duplicate(st, h.bucketBoundaries)
        bucketBoundaries == Len(s1.mem)
        s3 == Duplicate(s1, h.bucketTotals)
        bucketTotals == Len(s3.mem)
        c == [bucketBoundaries |-> bucketBoundaries, bucketCounts |-> h.bucketCounts,
              bucketTotals |-> bucketTotals, numSamples |-> h.numSamples, total |-> h.total]
        s4 == [s3 EXCEPT !.heap = Append(@, c)]
    IN  Result(s4, "ok", <<Len(s4.heap)>>)

Copy(st, p) ==
    LET h == st.heap[p]
        s1 == Duplicate(st, h.bucketBoundaries)
        bucketBoundaries == Len(s1.mem)
        s2 == Duplicate(s1, h.bucketCounts)
        bucketCounts == Len(s2.mem)
        s3 == Duplicate(s2, h.bucketTotals)
        bucketTotals == Len(s3.mem)
        c == [bucketBoundaries |-> bucketBoundaries, bucketCounts |-> bucketCounts,
              bucketTotals |-> bucketTotals, numSamples |-> h.numSamples, total |-> h.total]
        s4 == [s3 EXCEPT !.heap = Append(@, c)]
    IN  Result(s4, "ok", <<Len(s4.heap)>>)

---------------------------------------------------------------------------
(* The calls of a single-threaded client.  `last` records the call, how it *)
(* ended, and what the receiver's accessors showed just before it (pre);   *)
(* for a subtraction that follows the merge of the same histogram, also    *)
(* what they showed before that merge (preMerge).  preOther is what the    *)
(* argument histogram of a merge or subtraction showed before the call,    *)
(* preAll what every histogram showed before the call.                     *)

NoCall == [op |-> "none", h |-> 0, val |-> 0, input |-> NilSlice,
           outcome |-> "none", ret |-> <<>>, pre |-> NoView, preOther |-> NoView,
           preAll |-> <<>>, undoes |-> FALSE, preMerge |-> NoView]

\* This call is h.DecrementFromHistogram(other) made right after a returned
\* h.IncrementFromHistogram(other) with the same h and other.
Undoes(op, p, val) ==
    /\ op = "DecrementFromHistogram"
    /\ last.op = "IncrementFromHistogram"
    /\ last.outcome = "ok"
    /\ last.h = p
    /\ last.val = val

Pointers == 1 .. Len(heap)

\* the bucket indices a caller tries: the valid ones, 0 .. N, and one beyond each end
Indices(p) == (-1) .. (len(State, heap[p].bucketBoundaries) + 1)

HasOther(op) == op \in {"IncrementFromHistogram", "DecrementFromHistogram"}

Record(op, p, val, input, r) ==
    /\ mem' = r.st.mem
    /\ heap' = r.st.heap
    /\ origin' = IF Len(r.st.heap) > Len(heap)
                 THEN Append(origin, IF op = "Copy" THEN p ELSE 0)
                 ELSE origin
    /\ last' = [op |-> op, h |-> p, val |-> val, input |-> input,
                outcome |-> r.outcome, ret |-> r.ret,
                pre |-> IF p = 0 THEN NoView ELSE View(State, p),
                preOther |-> IF HasOther(op) THEN View(State, val) ELSE NoView,
                preAll |-> [q \in Pointers |-> View(State, q)],
                undoes |-> Undoes(op, p, val),
                preMerge |-> IF Undoes(op, p, val) THEN last.pre ELSE NoView]
    /\ calls' = calls + 1
    /\ UNCHANGED <<threads, rng>>

\* The caller builds the slice (or passes nil) and calls New; a slice New
\* rejects is dropped by the caller.
CallNew(b) ==
    /\ calls < MaxCalls
    /\ Len(heap) < MaxHist
    /\ LET st == IF b.isNil THEN State ELSE Alloc(State, b.elems)
           s == IF b.isNil THEN 0 ELSE Len(st.mem)
           r == New(st, s)
       IN  Record("New", 0, 0, b, IF r.outcome = "ok" THEN r ELSE Result(State, r.outcome, r.ret))

CallIncrement(p, val) ==
    /\ calls < MaxCalls
    /\ Record("Increment", p, val, NilSlice, Increment(State, p, val))

CallAtomicIncrement(p, val) ==
    /\ calls < MaxCalls
    /\ Record("AtomicIncrement", p, val, NilSlice, AtomicIncrement(State, p, val))

CallBucketRanges(p, index) ==
    /\ calls < MaxCalls
    /\ Record("BucketRanges", p, index, NilSlice, BucketRanges(State, p, index))

CallClear(p) ==
    /\ calls < MaxCalls
    /\ Record("Clear", p, 0, NilSlice, Clear(State, p))

CallIncrementFromHistogram(p, o) ==
    /\ calls < MaxCalls
    /\ Record("IncrementFromHistogram", p, o, NilSlice, IncrementFromHistogram(State, p, o))

CallDecrementFromHistogram(p, o) ==
    /\ calls < MaxCalls
    /\ Record("DecrementFromHistogram", p, o, NilSlice, DecrementFromHistogram(State, p, o))

CallCopy(p) ==
    /\ calls < MaxCalls
    /\ Len(heap) < MaxHist
    /\ Record("Copy", p, 0, NilSlice, Copy(State, p))

NoThreads == <<>>
NoRange == [called |-> FALSE, start |-> 0, stop |-> 0, step |-> 0,
            outcome |-> "none", values |-> <<>>]

Init ==
    /\ mem = <<>>
    /\ heap = <<>>
    /\ origin = <<>>
    /\ last = NoCall
    /\ calls = 0
    /\ threads = NoThreads
    /\ rng = NoRange

Next ==
    \/ \E b \in ClientInputs : CallNew(b)
    \/ \E p \in Pointers, val \in SampleValues : CallIncrement(p, val)
    \/ \E p \in Pointers, val \in SampleValues : CallAtomicIncrement(p, val)
    \/ \E p \in Pointers : CallClear(p)
    \/ \E p \in Pointers, o \in Pointers : CallIncrementFromHistogram(p, o)
    \/ \E p \in Pointers, o \in Pointers : CallDecrementFromHistogram(p, o)
    \/ \E p \in Pointers : CallCopy(p)

Spec == Init /\ [][Next]_vars

---------------------------------------------------------------------------
(* Construction and reading: New as the first call, on every slice of the *)
(* bounded input set, then BucketRanges on the histogram it returned.      *)

ConstructFrom(b) ==
    /\ calls = 0
    /\ CallNew(b)

NextNew ==
    \/ \E b \in BoundaryInputs : ConstructFrom(b)
    \/ \E p \in Pointers : \E index \in Indices(p) : CallBucketRanges(p, index)

SpecNew == Init /\ [][NextNew]_vars

---------------------------------------------------------------------------
(* Goroutines calling AtomicIncrement on one histogram.  Each goroutine    *)
(* makes one call; the call is the bucket lookup followed by four atomic   *)
(* adds, and goroutines interleave between any two of these steps.         *)

Threads == 1 .. MaxThreads
Shared == 1

Idle == [pc |-> "idle", val |-> 0, index |-> 0, tmp |-> <<>>]

Commit(st) ==
    /\ mem' = st.mem
    /\ heap' = st.heap

At(t, pc) == threads[t].pc = pc
Goto(t, pc) == threads' = [threads EXCEPT ![t].pc = pc]

\* lines 74-76: the call starts and looks its bucket up
Begin(t, val) ==
    /\ At(t, "idle")
    /\ threads' = [threads EXCEPT ![t] = [pc |-> "l77", val |-> val,
                                          index |-> Search(State, Shared, val), tmp |-> <<>>]]
    /\ UNCHANGED <<mem, heap, origin, last, calls, rng>>

\* line 77: atomic.AddInt64(&h.bucketCounts[index], 1)
Add77(t) ==
    /\ At(t, "l77")
    /\ Commit(AddBucketCount(State, Shared, threads[t].index))
    /\ Goto(t, "l78")
    /\ UNCHANGED <<origin, last, calls, rng>>

\* line 78: atomic.AddInt64(&h.bucketTotals[index], val)
Add78(t) ==
    /\ At(t, "l78")
    /\ Commit(AddBucketTotal(State, Shared, threads[t].index, threads[t].val))
    /\ Goto(t, "l79")
    /\ UNCHANGED <<origin, last, calls, rng>>

\* mutant: the global count updated by a plain load and a later store
Add79Racy(t) ==
    /\ At(t, "l79")
    /\ IF threads[t].tmp = <<>>
       THEN /\ threads' = [threads EXCEPT ![t].tmp = <<heap[Shared].numSamples>>]
            /\ UNCHANGED <<mem, heap>>
       ELSE /\ heap' = [heap EXCEPT ![Shared].numSamples = Wrap(threads[t].tmp[1] + 1)]
            /\ threads' = [threads EXCEPT ![t].tmp = <<>>, ![t].pc = "l80"]
            /\ UNCHANGED mem
    /\ UNCHANGED <<origin, last, calls, rng>>

\* line 79: atomic.AddInt64(&h.numSamples, 1)
Add79(t) ==
    /\ At(t, "l79")
    /\ Commit(AddNumSamples(State, Shared))
    /\ Goto(t, "l80")
    /\ UNCHANGED <<origin, last, calls, rng>>

\* line 80: atomic.AddInt64(&h.total, val), and the call returns
Add80(t) ==
    /\ At(t, "l80")
    /\ Commit(AddTotal(State, Shared, threads[t].val))
    /\ Goto(t, "done")
    /\ UNCHANGED <<origin, last, calls, rng>>

\* a histogram fresh from New, and no goroutine started yet
InitAtomic ==
    /\ \E b \in ClientInputs :
           LET r == New(Alloc([mem |-> <<>>, heap |-> <<>>], b.elems), 1)
           IN  /\ ~b.isNil
               /\ r.outcome = "ok"
               /\ mem = r.st.mem
               /\ heap = r.st.heap
    /\ origin = <<0>>
    /\ last = NoCall
    /\ calls = 0
    /\ threads = [t \in Threads |-> Idle]
    /\ rng = NoRange

NextAtomic ==
    \/ \E t \in Threads, val \in SampleValues : Begin(t, val)
    \/ \E t \in Threads : Add77(t)
    \/ \E t \in Threads : Add78(t)
    \/ \E t \in Threads : Add79(t)
    \/ \E t \in Threads : Add80(t)

SpecAtomic == InitAtomic /\ [][NextAtomic]_vars

---------------------------------------------------------------------------
(* Two goroutines, each making one call on the same histogram with no      *)
(* synchronisation: Increment, AtomicIncrement or Clear.  A plain          *)
(* statement x++ or x += v is a load followed by a store, a plain x = 0 is *)
(* a store; the goroutines interleave between any two memory accesses.     *)
(* overlap records that the call began while the other call was running.   *)

Racers == {1, 2}

RacerIdle == [pc |-> "idle", val |-> 0, index |-> 0, tmp |-> <<>>,
              op |-> "none", i |-> 0, overlap |-> FALSE]

Running(t) == threads[t].pc \notin {"idle", "done", "panic"}

Enter(t, op, val, pc) ==
    threads' = [threads EXCEPT ![t] = [pc |-> pc, val |-> val,
                                       index |-> Search(State, Shared, val), tmp |-> <<>>,
                                       op |-> op, i |-> 0,
                                       overlap |-> \E u \in Racers \ {t} : Running(u)]]

\* lines 63-65: Increment starts and looks its bucket up
BeginIncrement(t, val) ==
    /\ At(t, "idle")
    /\ Enter(t, "Increment", val, "l66")
    /\ UNCHANGED <<mem, heap, origin, last, calls, rng>>

\* lines 74-76: AtomicIncrement starts and looks its bucket up
BeginAtomicIncrement(t, val) ==
    /\ At(t, "idle")
    /\ Enter(t, "AtomicIncrement", val, "l77")
    /\ UNCHANGED <<mem, heap, origin, last, calls, rng>>

\* lines 143-146: Clear starts, compares the lengths and enters its loop
BeginClear(t) ==
    /\ At(t, "idle")
    /\ Enter(t, "Clear", 0,
             IF len(State, heap[Shared].bucketCounts) # len(State, heap[Shared].bucketTotals)
             THEN "panic"
             ELSE IF 0 < len(State, heap[Shared].bucketCounts) THEN "l147" ELSE "done")
    /\ UNCHANGED <<mem, heap, origin, last, calls, rng>>

\* a plain read-modify-write of the element k of slice s: the load, then the store
PlainAdd(t, s, k, delta, next) ==
    IF threads[t].tmp = <<>>
    THEN /\ threads' = [threads EXCEPT ![t].tmp = <<Load(State, s, k)>>]
         /\ UNCHANGED <<mem, heap>>
    ELSE /\ Commit(Store(State, s, k, Wrap(threads[t].tmp[1] + delta)))
         /\ threads' = [threads EXCEPT ![t].tmp = <<>>, ![t].pc = next]

\* line 66: h.bucketCounts[index]++
Inc66(t) ==
    /\ At(t, "l66")
    /\ PlainAdd(t, heap[Shared].bucketCounts, threads[t].index, 1, "l67")
    /\ UNCHANGED <<origin, last, calls, rng>>

\* line 67: h.bucketTotals[index] += val
Inc67(t) ==
    /\ At(t, "l67")
    /\ PlainAdd(t, heap[Shared].bucketTotals, threads[t].index, threads[t].val, "l68")
    /\ UNCHANGED <<origin, last, calls, rng>>

\* mutant: the store of the global count writes back the value loaded
Inc68NoAdd(t) ==
    /\ At(t, "l68")
    /\ IF threads[t].tmp = <<>>
       THEN threads' = [threads EXCEPT ![t].tmp = <<heap[Shared].numSamples>>]
       ELSE threads' = [threads EXCEPT ![t].tmp = <<>>, ![t].pc = "l69"]
    /\ UNCHANGED <<mem, heap, origin, last, calls, rng>>

\* line 68: h.numSamples++
Inc68(t) ==
    /\ At(t, "l68")
    /\ IF threads[t].tmp = <<>>
       THEN /\ threads' = [threads EXCEPT ![t].tmp = <<heap[Shared].numSamples>>]
            /\ UNCHANGED heap
       ELSE /\ heap' = [heap EXCEPT ![Shared].numSamples = Wrap(threads[t].tmp[1] + 1)]
            /\ threads' = [threads EXCEPT ![t].tmp = <<>>, ![t].pc = "l69"]
    /\ UNCHANGED <<mem, origin, last, calls, rng>>

\* line 69: h.total += val, and the call returns
Inc69(t) ==
    /\ At(t, "l69")
    /\ IF threads[t].tmp = <<>>
       THEN /\ threads' = [threads EXCEPT ![t].tmp = <<heap[Shared].total>>]
            /\ UNCHANGED heap
       ELSE /\ heap' = [heap EXCEPT ![Shared].total = Wrap(threads[t].tmp[1] + threads[t].val)]
            /\ threads' = [threads EXCEPT ![t].tmp = <<>>, ![t].pc = "done"]
    /\ UNCHANGED <<mem, origin, last, calls, rng>>

\* line 147: h.bucketCounts[i] = 0
Clear147(t) ==
    /\ At(t, "l147")
    /\ Commit(Store(State, heap[Shared].bucketCounts, threads[t].i, 0))
    /\ Goto(t, "l148")
    /\ UNCHANGED <<origin, last, calls, rng>>

\* line 148: h.bucketTotals[i] = 0
Clear148(t) ==
    /\ At(t, "l148")
    /\ Commit(Store(State, heap[Shared].bucketTotals, threads[t].i, 0))
    /\ Goto(t, "l149")
    /\ UNCHANGED <<origin, last, calls, rng>>

\* mutant: the global count is not reset
Clear149Skipped(t) ==
    /\ At(t, "l149")
    /\ Goto(t, "l150")
    /\ UNCHANGED <<mem, heap, origin, last, calls, rng>>

\* line 149: h.numSamples = 0
Clear149(t) ==
    /\ At(t, "l149")
    /\ heap' = [heap EXCEPT ![Shared].numSamples = 0]
    /\ Goto(t, "l150")
    /\ UNCHANGED <<mem, origin, last, calls, rng>>

\* line 150: h.total = 0; then the next bucket, or the call returns
Clear150(t) ==
    /\ At(t, "l150")
    /\ heap' = [heap EXCEPT ![Shared].total = 0]
    /\ threads' = [threads EXCEPT
                      ![t].i = @ + 1,
                      ![t].pc = IF threads[t].i + 1 < len(State, heap[Shared].bucketCounts)
                                THEN "l147"
                                ELSE "done"]
    /\ UNCHANGED <<mem, origin, last, calls, rng>>

\* a histogram fresh from New, and no goroutine started yet
InitRace ==
    /\ \E b \in ClientInputs :
           LET r == New(Alloc([mem |-> <<>>, heap |-> <<>>], b.elems), 1)
           IN  /\ ~b.isNil
               /\ r.outcome = "ok"
               /\ mem = r.st.mem
               /\ heap = r.st.heap
    /\ origin = <<0>>
    /\ last = NoCall
    /\ calls = 0
    /\ threads = [t \in Racers |-> RacerIdle]
    /\ rng = NoRange

NextRace ==
    \/ \E t \in Racers, val \in SampleValues : BeginIncrement(t, val)
    \/ \E t \in Racers, val \in SampleValues : BeginAtomicIncrement(t, val)
    \/ \E t \in Racers : BeginClear(t)
    \/ \E t \in Racers : Inc66(t)
    \/ \E t \in Racers : Inc67(t)
    \/ \E t \in Racers : Inc68(t)
    \/ \E t \in Racers : Inc69(t)
    \/ \E t \in Racers : Add77(t)
    \/ \E t \in Racers : Add78(t)
    \/ \E t \in Racers : Add79(t)
    \/ \E t \in Racers : Add80(t)
    \/ \E t \in Racers : Clear147(t)
    \/ \E t \in Racers : Clear148(t)
    \/ \E t \in Racers : Clear149(t)
    \/ \E t \in Racers : Clear150(t)

SpecRace == InitRace /\ [][NextRace]_vars

---------------------------------------------------------------------------
\* func Range(start int64, stop int64, step int64) []int64

\* the quotient / of two int64: truncated toward zero, wrapping for MinInt64 / -1
Abs(x) == IF x >= 0 THEN x ELSE -x
Quot(a, b) ==
    LET q == Abs(a) \div Abs(b)
    IN  Wrap(IF (a >= 0) = (b >= 0) THEN q ELSE -q)

\* lines 17-21: the loop that fills values
RECURSIVE RangeLoop(_, _, _, _, _)
RangeLoop(values, value, step, i, length) ==
    IF i < length
    THEN RangeLoop(Append(values, value), Wrap(value + step), step, i + 1, length)
    ELSE values

\* mutant: a degenerate call returns an empty slice that is not nil
RangeEmptyNotNil(start, stop, step) ==
    IF step = 0 \/ (step > 0 /\ start > stop) \/ (step < 0 /\ start < stop)
    THEN [outcome |-> "ok", values |-> <<>>]
    ELSE LET length == Wrap(Quot(Wrap(stop - start), step) + 1)
         IN  IF length < 0
             THEN [outcome |-> "panic", values |-> <<>>]
             ELSE [outcome |-> "ok", values |-> RangeLoop(<<>>, start, step, 0, length)]

\* make with a negative length is a run-time panic
Range(start, stop, step) ==
    IF step = 0
    THEN [outcome |-> "nil", values |-> <<>>]
    ELSE IF step > 0 /\ start > stop
    THEN [outcome |-> "nil", values |-> <<>>]
    ELSE IF step < 0 /\ start < stop
    THEN [outcome |-> "nil", values |-> <<>>]
    ELSE LET length == Wrap(Quot(Wrap(stop - start), step) + 1)
         IN  IF length < 0
             THEN [outcome |-> "panic", values |-> <<>>]
             ELSE [outcome |-> "ok", values |-> RangeLoop(<<>>, start, step, 0, length)]

CallRange ==
    /\ ~rng.called
    /\ LET r == Range(rng.start, rng.stop, rng.step)
       IN  rng' = [rng EXCEPT !.called = TRUE, !.outcome = r.outcome, !.values = r.values]
    /\ UNCHANGED <<mem, heap, origin, last, calls, threads>>

\* the arguments range over all of int64
InitRange ==
    /\ mem = <<>>
    /\ heap = <<>>
    /\ origin = <<>>
    /\ last = NoCall
    /\ calls = 0
    /\ threads = NoThreads
    /\ rng \in [called : {FALSE}, start : Int64, stop : Int64, step : Int64,
                 outcome : {"none"}, values : {<<>>}]

\* New(Range(start, stop, step)): the slice Range returned, or nil, given to New
NewOfRange ==
    /\ rng.called
    /\ rng.outcome # "panic"
    /\ calls = 0
    /\ CallNew(IF rng.outcome = "nil" THEN NilSlice ELSE SliceOf(rng.values))

NextRange ==
    \/ CallRange
    \/ NewOfRange

SpecRange == InitRange /\ [][NextRange]_vars

---------------------------------------------------------------------------
(* Replay: three histograms built over the same boundaries.  Every sample  *)
(* given to the target or to the source, by Increment or AtomicIncrement,  *)
(* is also given to the replay histogram by Increment; the target may then *)
(* merge the source.                                                       *)

Target == 1
Source == 2
Replay == 3

Paths == {"Increment", "AtomicIncrement"}

Insert(path, st, p, val) ==
    IF path = "AtomicIncrement"
    THEN AtomicIncrement(st, p, val)
    ELSE Increment(st, p, val)

Merged == last.op = "IncrementFromHistogram"

\* h.Increment(val) or h.AtomicIncrement(val), and replay.Increment(val)
Drive(path, p, val) ==
    /\ calls < MaxCalls
    /\ ~Merged
    /\ LET r == Insert(path, State, p, val)
           t == Increment(r.st, Replay, val)
       IN  Record(path, p, val, NilSlice, Result(t.st, r.outcome, r.ret))

DriveTarget(path, val) == Drive(path, Target, val)

DriveSource(path, val) == Drive(path, Source, val)

\* target.IncrementFromHistogram(source)
Merge ==
    /\ ~Merged
    /\ CallIncrementFromHistogram(Target, Source)

\* New called three times, each time on a slice of its own with the same elements
BuildThree(inputs) ==
    /\ \E b \in inputs :
           LET empty == [mem |-> <<>>, heap |-> <<>>]
               s1 == Alloc(empty, b.elems)
               r1 == New(s1, Len(s1.mem))
               s2 == Alloc(r1.st, b.elems)
               r2 == New(s2, Len(s2.mem))
               s3 == Alloc(r2.st, b.elems)
               r3 == New(s3, Len(s3.mem))
           IN  /\ ~b.isNil
               /\ r1.outcome = "ok"
               /\ mem = r3.st.mem
               /\ heap = r3.st.heap
    /\ origin = <<0, 0, 0>>
    /\ last = NoCall
    /\ calls = 0
    /\ threads = NoThreads
    /\ rng = NoRange

\* one histogram driven along either path, and its replay
InitTwin == BuildThree(BoundaryInputs)

NextTwin == \E path \in Paths, val \in SampleValues : DriveTarget(path, val)

SpecTwin == InitTwin /\ [][NextTwin]_vars

\* two histograms filled along either path, their replay, and the merge
InitReplay == BuildThree(ClientInputs)

NextReplay ==
    \/ \E path \in Paths, val \in SampleValues : DriveTarget(path, val)
    \/ \E path \in Paths, val \in SampleValues : DriveSource(path, val)
    \/ Merge

SpecReplay == InitReplay /\ [][NextReplay]_vars

---------------------------------------------------------------------------
(* Properties of the single-threaded calls *)

\* the sum a caller computes in int64 arithmetic
RECURSIVE Sum64(_)
Sum64(s) == IF s = <<>> THEN 0 ELSE Wrap(Head(s) + Sum64(Tail(s)))

Zeros(n) == [i \in 1 .. n |-> 0]

\* the bucket of a value: the smallest i in 0 .. N with b[i] > v, N when there is none
LowestAbove(b, v) ==
    CHOOSE i \in 0 .. Len(b) :
        /\ i = Len(b) \/ b[i + 1] > v
        /\ \A j \in 0 .. (i - 1) : b[j + 1] <= v

Now(p) == View(State, p)
Returned == last.outcome = "ok"

\* C1: in every state the single-threaded calls reach, every histogram has
\* Count() equal to the sum of its BucketCount(i) and Total() equal to the sum
\* of its BucketTotal(i), i ranging over [0, Size()).
C1_TotalsAreSums ==
    \A p \in Pointers :
        LET n == Size(State, p).ret[1]
        IN  /\ Size(State, p).outcome = "ok"
            /\ Count(State, p) = Sum64([i \in 1 .. n |-> BucketCount(State, p, i - 1)])
            /\ Total(State, p) = Sum64([i \in 1 .. n |-> BucketTotal(State, p, i - 1)])

\* a merge has just filled two buckets of a histogram
C1_Witness ==
    /\ last.op = "IncrementFromHistogram"
    /\ Returned
    /\ \E i, j \in 1 .. Len(Now(last.h).bucketCounts) :
           /\ i # j
           /\ Now(last.h).bucketCounts[i] # 0
           /\ Now(last.h).bucketCounts[j] # 0

\* the histogram New(b) returns, after Increment of each sample in turn
RECURSIVE IncrementAll(_, _, _)
IncrementAll(st, p, samples) ==
    IF samples = <<>>
    THEN st
    ELSE IncrementAll(Increment(st, p, Head(samples)).st, p, Tail(samples))

Filled(b, samples) ==
    LET r == New(Alloc([mem |-> <<>>, heap |-> <<>>], b), 1)
    IN  View(IncrementAll(r.st, 1, samples), 1)

\* the bucket counts of the test: boundaries 1,2,3,4 and the samples 1,1,2,3,0,4
TestHistogramCounts == Filled(<<1, 2, 3, 4>>, <<1, 1, 2, 3, 0, 4>>).bucketCounts

\* C3: Increment(v) adds 1 to the count and v to the total of the bucket with
\* the smallest index i such that b[i] > v (N when no boundary exceeds v), adds
\* 1 to Count() and v to Total(), and changes no other bucket and no boundary;
\* boundaries 1,2,3,4 with the samples 1,1,2,3,0,4 give the counts 1,2,1,1,1.
C3_IncrementUpdatesItsBucket ==
    /\ last.op = "Increment" =>
           LET i == LowestAbove(last.pre.bucketBoundaries, last.val)
           IN  /\ Returned
               /\ Now(last.h) = [last.pre EXCEPT !.bucketCounts[i + 1] = Wrap(@ + 1),
                                                 !.bucketTotals[i + 1] = Wrap(@ + last.val),
                                                 !.numSamples = Wrap(@ + 1),
                                                 !.total = Wrap(@ + last.val)]
    /\ TestHistogramCounts = <<1, 2, 1, 1, 1>>

\* a value equal to boundary b[k] has gone to bucket k+1 of a histogram that held samples
C3_Witness ==
    /\ last.op = "Increment"
    /\ last.pre.numSamples # 0
    /\ \E k \in 1 .. Len(last.pre.bucketBoundaries) :
           /\ last.pre.bucketBoundaries[k] = last.val
           /\ Now(last.h).bucketCounts[k + 1] = last.pre.bucketCounts[k + 1] + 1

\* C5 as stated: IncrementFromHistogram(source) followed by
\* DecrementFromHistogram(source) restores the target's counters, whichever
\* histogram the source is, the target itself included.
C5_RoundTripAnySource ==
    last.undoes => Now(last.h) = last.preMerge

\* C5, amended: the round trip restores the target's bucket counts, bucket
\* totals, Count() and Total() whenever the source is another histogram than
\* the target.
C5_RoundTripOtherSource ==
    (last.undoes /\ last.val # last.h) => (Returned /\ Now(last.h) = last.preMerge)

\* a histogram holding samples has merged and subtracted another one that holds samples
C5_Witness ==
    /\ last.undoes
    /\ last.val # last.h
    /\ last.preMerge.numSamples # 0
    /\ last.preOther.numSamples # 0

\* C6: Copy returns a histogram that shows what the original showed at the
\* call and owns its three slices alone; a call on one histogram changes
\* nothing another histogram shows, so none on the copy changes the original
\* and none on the original changes the copy.
C6_CopyIsIndependent ==
    /\ last.op = "Copy" =>
           LET c == last.ret[1]
           IN  /\ Returned
               /\ Now(c) = last.pre
               /\ Now(last.h) = last.pre
               /\ \A q \in Pointers \ {c} :
                      {heap[c].bucketBoundaries, heap[c].bucketCounts, heap[c].bucketTotals}
                      \cap {heap[q].bucketBoundaries, heap[q].bucketCounts, heap[q].bucketTotals}
                      = {}
    /\ \A q \in DOMAIN last.preAll : q # last.h => Now(q) = last.preAll[q]

\* a sample has gone into a copy of a histogram that holds samples
C6_Witness ==
    /\ last.op \in {"Increment", "AtomicIncrement"}
    /\ origin[last.h] # 0
    /\ Now(origin[last.h]).numSamples # 0
    /\ Now(origin[last.h]) = last.pre

\* C7: Clear leaves every bucket count and bucket total, Count() and Total()
\* zero, so that Average() and every BucketAverage(i) are the zero default, and
\* leaves Size() and the boundaries as they were.
C7_ClearZeroes ==
    last.op = "Clear" =>
        LET n == Len(last.pre.bucketCounts)
        IN  /\ Returned
            /\ Now(last.h) = [last.pre EXCEPT !.bucketCounts = Zeros(n),
                                              !.bucketTotals = Zeros(n),
                                              !.numSamples = 0,
                                              !.total = 0]
            /\ Size(State, last.h).ret = <<n>>
            /\ Average(State, last.h) = <<0, 1>>
            /\ \A i \in 0 .. (n - 1) : BucketAverage(State, last.h, i) = <<0, 1>>

\* a histogram whose buckets held non-zero totals has been cleared
C7_Witness ==
    /\ last.op = "Clear"
    /\ last.pre.numSamples # 0
    /\ \E i \in 1 .. Len(last.pre.bucketTotals) : last.pre.bucketTotals[i] # 0

\* C9 as stated: for every index in [0, N] BucketRanges returns the pair of
\* bounds of that bucket without faulting, whatever N the constructor
\* accepted; for every other index it faults.
C9_BucketRangesOfEveryBucket ==
    last.op = "BucketRanges" =>
        LET b == last.pre.bucketBoundaries
            N == Len(b)
            i == last.val
        IN  IF i \in 0 .. N
            THEN /\ Returned
                 /\ (i = 0 /\ N > 0) => last.ret = <<MinInt64, b[1]>>
                 /\ (i = N /\ N > 0) => last.ret = <<b[N], MaxInt64>>
                 /\ (0 < i /\ i < N) => last.ret = <<b[i], b[i + 1]>>
            ELSE last.outcome = "panic"

\* C10: a merge or subtraction of histograms with different numbers of
\* boundaries faults and changes no counter of either; with equal numbers it
\* adds (subtracts) the other's counters bucket by bucket and globally,
\* whatever the boundary values are.
C10_MergeComparesLengthsOnly ==
    HasOther(last.op) =>
        LET pre == last.pre
            o == last.preOther
            n == Len(pre.bucketCounts)
            Op(x, y) == IF last.op = "IncrementFromHistogram" THEN Wrap(x + y) ELSE Wrap(x - y)
        IN  IF Len(pre.bucketBoundaries) # Len(o.bucketBoundaries)
            THEN /\ last.outcome = "panic"
                 /\ \A q \in DOMAIN last.preAll : Now(q) = last.preAll[q]
            ELSE /\ Returned
                 /\ Now(last.h) =
                        [bucketBoundaries |-> pre.bucketBoundaries,
                         bucketCounts |-> [i \in 1 .. n |-> Op(pre.bucketCounts[i], o.bucketCounts[i])],
                         bucketTotals |-> [i \in 1 .. n |-> Op(pre.bucketTotals[i], o.bucketTotals[i])],
                         numSamples |-> Op(pre.numSamples, o.numSamples),
                         total |-> Op(pre.total, o.total)]
                 /\ \A q \in DOMAIN last.preAll : q # last.h => Now(q) = last.preAll[q]

\* a merge between histograms with different numbers of boundaries, both holding samples
C10_Witness ==
    /\ HasOther(last.op)
    /\ last.outcome = "panic"
    /\ last.pre.numSamples # 0
    /\ last.preOther.numSamples # 0

\* a subtraction between histograms with different boundary values of equal
\* number has driven a count below zero
C10_NegativeReached ==
    /\ last.op = "DecrementFromHistogram"
    /\ Returned
    /\ last.pre.bucketBoundaries # last.preOther.bucketBoundaries
    /\ Now(last.h).numSamples < 0

\* C11: called one after the other, Increment and AtomicIncrement are the same
\* operation: a histogram driven by any mix of Increment and AtomicIncrement
\* and a histogram over the same boundaries driven by Increment alone with the
\* same values show equal bucket counts, bucket totals, Count() and Total()
\* after each call; AtomicIncrement picks its bucket by the lookup rule of
\* Increment, the smallest i with b[i] > v.
C11_AtomicIncrementIsIncrement ==
    /\ Now(Target) = Now(Replay)
    /\ Count(State, Target) = Count(State, Replay)
    /\ Total(State, Target) = Total(State, Replay)
    /\ last.op = "AtomicIncrement" =>
           LET i == LowestAbove(last.pre.bucketBoundaries, last.val)
           IN  /\ Returned
               /\ Now(last.h) = [last.pre EXCEPT !.bucketCounts[i + 1] = Wrap(@ + 1),
                                                 !.bucketTotals[i + 1] = Wrap(@ + last.val),
                                                 !.numSamples = Wrap(@ + 1),
                                                 !.total = Wrap(@ + last.val)]

\* an AtomicIncrement has added a value equal to a boundary to a histogram
\* that held samples in two buckets already
C11_Witness ==
    /\ last.op = "AtomicIncrement"
    /\ last.h = Target
    /\ \E k \in 1 .. Len(last.pre.bucketBoundaries) : last.pre.bucketBoundaries[k] = last.val
    /\ \E i, j \in 1 .. Len(last.pre.bucketCounts) :
           /\ i # j
           /\ last.pre.bucketCounts[i] # 0
           /\ last.pre.bucketCounts[j] # 0

\* C12: in every state reached from New by Increment, AtomicIncrement, Clear,
\* IncrementFromHistogram, DecrementFromHistogram and Copy, every histogram has
\* len(bucketCounts) = len(bucketTotals) = len(boundaries) + 1 and strictly
\* increasing boundaries; no call changes the boundaries of a histogram, which
\* are the slice New was given (for a copy, the boundaries of its original);
\* so Size() returns N + 1 and neither Size nor Clear reaches its panic.
C12_ShapeIsInvariant ==
    /\ \A p \in Pointers :
           LET b == Now(p).bucketBoundaries
               N == Len(b)
           IN  /\ Len(Now(p).bucketCounts) = N + 1
               /\ Len(Now(p).bucketTotals) = N + 1
               /\ \A i \in 1 .. (N - 1) : b[i] < b[i + 1]
               /\ Size(State, p).outcome = "ok"
               /\ Size(State, p).ret = <<N + 1>>
               /\ Clear(State, p).outcome = "ok"
    /\ \A q \in DOMAIN last.preAll :
           Now(q).bucketBoundaries = last.preAll[q].bucketBoundaries
    /\ (last.op = "New" /\ Returned) =>
           Now(last.ret[1]).bucketBoundaries = last.input.elems
    /\ last.op = "Copy" =>
           Now(last.ret[1]).bucketBoundaries = last.pre.bucketBoundaries

\* a copy with two boundaries that holds samples has merged or subtracted a histogram
C12_Witness ==
    /\ HasOther(last.op)
    /\ Returned
    /\ origin[last.h] # 0
    /\ Len(Now(last.h).bucketBoundaries) = 2
    /\ last.pre.numSamples # 0
    /\ Now(last.h).bucketCounts # last.pre.bucketCounts

\* C18: for a target and a source over identical boundaries, the source filled
\* only by Increment and AtomicIncrement of some samples, the merge
\* target.IncrementFromHistogram(source) leaves the target with the bucket
\* counts, bucket totals, Count() and Total() it would have after Increment of
\* each of those samples, and leaves the source as it was.
C18_MergeIsReplay ==
    Merged =>
        /\ Returned
        /\ Now(Target) = Now(Replay)
        /\ Count(State, Target) = Count(State, Replay)
        /\ Total(State, Target) = Total(State, Replay)
        /\ Now(Source) = last.preOther

\* a target that held samples has merged a source holding samples in two buckets
C18_Witness ==
    /\ Merged
    /\ last.pre.numSamples # 0
    /\ \E i, j \in 1 .. Len(last.preOther.bucketTotals) :
           /\ i # j
           /\ last.preOther.bucketTotals[i] # 0
           /\ last.preOther.bucketTotals[j] # 0

---------------------------------------------------------------------------
(* Properties of construction *)

Updated(before, after) ==
    {i \in 0 .. (Len(before.bucketCounts) - 1) :
        after.bucketCounts[i + 1] # before.bucketCounts[i + 1]}

\* C13: bucket assignment agrees with the reported ranges.  On every
\* histogram New returns, for every bucket i whose BucketRanges(i) returns
\* (lo, hi) and every int64 value v: Increment(v), and AtomicIncrement(v),
\* update bucket i exactly when lo <= v and (v < hi or i is the last bucket);
\* and a returned BucketRanges call reports those bounds: boundaries[i-1] (the
\* least int64 for bucket 0) and boundaries[i] (the greatest int64 for bucket N).
C13_AssignmentAgreesWithRanges ==
    /\ \A p \in Pointers :
           LET N == Len(Now(p).bucketBoundaries)
           IN  \A i \in 0 .. N : \A v \in Int64 :
                   LET r == BucketRanges(State, p, i)
                       inside == r.ret[1] <= v /\ (i = N \/ v < r.ret[2])
                   IN  r.outcome = "ok" =>
                           /\ (Updated(Now(p), View(Increment(State, p, v).st, p)) = {i}) <=> inside
                           /\ (Updated(Now(p), View(AtomicIncrement(State, p, v).st, p)) = {i})
                                  <=> inside
    /\ (last.op = "BucketRanges" /\ Returned) =>
           LET b == last.pre.bucketBoundaries
               i == last.val
           IN  /\ last.ret = BucketRanges(State, last.h, i).ret
               /\ last.ret[1] = IF i = 0 THEN MinInt64 ELSE b[i]
               /\ last.ret[2] = IF i = Len(b) THEN MaxInt64 ELSE b[i + 1]

\* BucketRanges has returned the bounds of an interior bucket that takes
\* more than one value, and Increment of its low bound goes to that bucket
C13_Witness ==
    /\ last.op = "BucketRanges"
    /\ Returned
    /\ 0 < last.val
    /\ last.val < Len(last.pre.bucketBoundaries)
    /\ last.ret[1] + 1 < last.ret[2]
    /\ Updated(Now(last.h), View(Increment(State, last.h, last.ret[1]).st, last.h)) = {last.val}

---------------------------------------------------------------------------
(* Properties of concurrent AtomicIncrement calls *)

Quiescent ==
    /\ threads # NoThreads
    /\ \A t \in Threads : threads[t].pc \in {"idle", "done"}

ReturnedCalls == {t \in Threads : threads[t].pc = "done"}

RECURSIVE SumOfValues(_)
SumOfValues(T) ==
    IF T = {}
    THEN 0
    ELSE LET t == CHOOSE x \in T : TRUE
         IN  threads[t].val + SumOfValues(T \ {t})

\* C2: once the K concurrent AtomicIncrement calls have all returned, Count()
\* is K and the sum of the bucket counts, each bucket count is the number of
\* calls whose value belongs to that bucket, and Total() is the sum of the K
\* values and of the bucket totals.
C2_NoAtomicUpdateLost ==
    Quiescent =>
        LET K == Cardinality(ReturnedCalls)
            b == Now(Shared).bucketBoundaries
            n == Len(b) + 1
            InBucket(i) == {t \in ReturnedCalls : LowestAbove(b, threads[t].val) = i}
        IN  /\ Count(State, Shared) = Wrap(K)
            /\ Count(State, Shared) = Sum64(Now(Shared).bucketCounts)
            /\ \A i \in 0 .. (n - 1) :
                   /\ BucketCount(State, Shared, i) = Wrap(Cardinality(InBucket(i)))
                   /\ BucketTotal(State, Shared, i) = Wrap(SumOfValues(InBucket(i)))
            /\ Total(State, Shared) = Wrap(SumOfValues(ReturnedCalls))
            /\ Total(State, Shared) = Sum64(Now(Shared).bucketTotals)

\* every goroutine has returned, two of them from the same bucket and one from another
C2_Witness ==
    /\ threads # NoThreads
    /\ \A t \in Threads : threads[t].pc = "done"
    /\ \E t, u, w \in Threads :
           /\ t # u
           /\ threads[t].index = threads[u].index
           /\ threads[w].index # threads[t].index

\* the calls that have passed the line and not yet returned past the other
PastCount == {t \in Threads : threads[t].pc \in {"l78", "l79"}}
PastTotal == {t \in Threads : threads[t].pc \in {"l79", "l80"}}
InFlight == {t \in Threads : threads[t].pc \in {"l77", "l78", "l79", "l80"}}

\* C14: the four adds of one AtomicIncrement call are four steps.  In every
\* state of concurrent calls the sum of the bucket counts exceeds Count() by
\* the number of calls that have added to their bucket count and not yet to
\* the global count, and the sum of the bucket totals exceeds Total() by the
\* values of the calls that have added to their bucket total and not yet to
\* the global total; with such a call in progress a reader sees a bucket count
\* already incremented and Count() not yet.
C14_AddsAreSeparateSteps ==
    threads # NoThreads =>
        /\ Sum64(Now(Shared).bucketCounts) = Wrap(Count(State, Shared) + Cardinality(PastCount))
        /\ Sum64(Now(Shared).bucketTotals) = Wrap(Total(State, Shared) + SumOfValues(PastTotal))

\* one call is between its bucket-count add and its global-count add, no other
\* call is in flight, and a reader finds Count() and Total() different from the
\* bucket sums
C14_Witness ==
    /\ threads # NoThreads
    /\ \E t \in Threads :
           /\ threads[t].pc = "l79"
           /\ InFlight = {t}
           /\ BucketCount(State, Shared, threads[t].index) = Count(State, Shared) + 1
    /\ Count(State, Shared) # Sum64(Now(Shared).bucketCounts)

SkewIsBounded ==
    threads # NoThreads =>
        /\ Count(State, Shared) <= Sum64(Now(Shared).bucketCounts)
        /\ Sum64(Now(Shared).bucketCounts) <= Count(State, Shared) + Cardinality(InFlight)

CountsNeverDecrease ==
    /\ heap'[Shared].numSamples >= heap[Shared].numSamples
    /\ \A i \in 1 .. Len(Now(Shared).bucketCounts) :
           mem'[heap'[Shared].bucketCounts][i] >= Now(Shared).bucketCounts[i]

\* C15: bounded skew.  In every state of concurrent AtomicIncrement calls on a
\* freshly constructed histogram, intermediate states included,
\* Count() <= sum of the bucket counts <= Count() + (calls in flight); and no
\* step lowers a bucket count or Count().
C15_BoundedSkew == []SkewIsBounded /\ [][CountsNeverDecrease]_vars

\* one call has returned and two others have both added to their bucket
\* count and not yet to the global count
C15_Witness ==
    /\ threads # NoThreads
    /\ Cardinality(PastCount) = 2
    /\ ReturnedCalls # {}
    /\ Sum64(Now(Shared).bucketCounts) = Count(State, Shared) + 2

---------------------------------------------------------------------------
(* Properties of unsynchronised calls *)

BothReturned ==
    /\ threads # NoThreads
    /\ \A t \in Racers : threads[t].pc = "done"

RaceOps == {threads[t].op : t \in Racers}
Overlapped == \E t \in Racers : threads[t].overlap
Into(i) == {t \in Racers : threads[t].index = i}
Buckets == 0 .. (Len(Now(Shared).bucketCounts) - 1)

\* some counter is less than two calls made one after the other leave it
UpdateLost ==
    \/ Count(State, Shared) < 2
    \/ Total(State, Shared) # Wrap(SumOfValues(Racers))
    \/ \E i \in Buckets :
           \/ BucketCount(State, Shared, i) < Cardinality(Into(i))
           \/ BucketTotal(State, Shared, i) # Wrap(SumOfValues(Into(i)))

\* C16: Increment is not safe under concurrency.  Once an Increment and another
\* Increment or an AtomicIncrement on the same histogram have both returned,
\* Count() is 1 or 2 and a bucket count is at most the number of calls into the
\* bucket and at least 1 when there is one, Total() is the sum of the two
\* values or one of them; a counter falls short of what the two calls made one
\* after the other leave only when the calls overlapped and one of them is the
\* plain Increment - and then it can: an update is lost.
C16_PlainIncrementLosesUpdates ==
    (BothReturned /\ "Clear" \notin RaceOps) =>
        /\ Count(State, Shared) \in {1, 2}
        /\ Total(State, Shared) \in
               {Wrap(SumOfValues(Racers))} \cup {threads[t].val : t \in Racers}
        /\ \A i \in Buckets :
               /\ BucketCount(State, Shared, i) <= Cardinality(Into(i))
               /\ Into(i) # {} => BucketCount(State, Shared, i) >= 1
        /\ UpdateLost => (Overlapped /\ "Increment" \in RaceOps)

\* an Increment and an AtomicIncrement have both returned and Count() is 1
C16_Witness ==
    /\ BothReturned
    /\ RaceOps = {"Increment", "AtomicIncrement"}
    /\ Count(State, Shared) = 1
    /\ UpdateLost

\* two Increments into the same bucket have both returned and its count is 1
C16_TwoIncrementsLose ==
    /\ BothReturned
    /\ RaceOps = {"Increment"}
    /\ \E i \in Buckets : Cardinality(Into(i)) = 2 /\ BucketCount(State, Shared, i) = 1

Inconsistent ==
    \/ Count(State, Shared) # Sum64(Now(Shared).bucketCounts)
    \/ Total(State, Shared) # Sum64(Now(Shared).bucketTotals)

\* C17: Clear is not safe to run concurrently with an increment.  Once a Clear
\* and an Increment or AtomicIncrement of v on the same fresh histogram have
\* both returned, every counter is zero or what the one sample makes it; and
\* Count() differs from the sum of the bucket counts, or Total() from the sum
\* of the bucket totals, only when the two calls overlapped - and then it can.
C17_ClearRacesWithIncrement ==
    (BothReturned /\ "Clear" \in RaceOps /\ RaceOps # {"Clear"}) =>
        LET t == CHOOSE u \in Racers : threads[u].op # "Clear"
            v == threads[t].val
            k == threads[t].index
        IN  /\ Count(State, Shared) \in {0, 1}
            /\ Total(State, Shared) \in {0, v}
            /\ \A i \in Buckets :
                   /\ BucketCount(State, Shared, i) \in (IF i = k THEN {0, 1} ELSE {0})
                   /\ BucketTotal(State, Shared, i) \in (IF i = k THEN {0, v} ELSE {0})
            /\ Inconsistent => Overlapped

\* a Clear and an AtomicIncrement have both returned; the bucket add was reset
\* and the global add was not: Count() is 1 and every bucket count is 0
C17_Witness ==
    /\ BothReturned
    /\ RaceOps = {"Clear", "AtomicIncrement"}
    /\ Count(State, Shared) = 1
    /\ Sum64(Now(Shared).bucketCounts) = 0
    /\ Inconsistent

---------------------------------------------------------------------------
(* Properties of Range *)

Degenerate(start, stop, step) ==
    \/ step = 0
    \/ step > 0 /\ start > stop
    \/ step < 0 /\ start < stop

\* C8 as stated: Range returns the empty result without faulting on a zero
\* step or a step of the wrong direction; on every other input it returns
\* floor((stop - start) / step) + 1 elements, element k being start + k*step,
\* all of them between start and stop, the last one stop exactly when
\* stop - start is a multiple of step.
C8_RangeIsArithmeticProgression ==
    rng.called =>
        LET start == rng.start
            stop == rng.stop
            step == rng.step
            n == (Abs(stop - start) \div Abs(step)) + 1
            lo == IF start <= stop THEN start ELSE stop
            hi == IF start <= stop THEN stop ELSE start
        IN  IF Degenerate(start, stop, step)
            THEN rng.outcome = "nil" /\ rng.values = <<>>
            ELSE /\ rng.outcome = "ok"
                 /\ Len(rng.values) = n
                 /\ \A k \in 0 .. (n - 1) :
                        /\ rng.values[k + 1] = start + k * step
                        /\ lo <= rng.values[k + 1]
                        /\ rng.values[k + 1] <= hi
                 /\ (rng.values[n] = stop) <=> (Abs(stop - start) % Abs(step) = 0)

\* C19: Range output is constructor input.  When start <= stop, step > 0 and
\* neither stop - start nor the length overflows int64, New(Range(start, stop,
\* step)) returns a histogram of floor((stop - start) / step) + 2 buckets; when
\* the input is degenerate (step zero or of the wrong direction) Range returns
\* nil and New fails with the empty-input error.
C19_NewOfRange ==
    (rng.called /\ last.op = "New") =>
        LET start == rng.start
            stop == rng.stop
            step == rng.step
        IN  IF Degenerate(start, stop, step)
            THEN /\ rng.outcome = "nil"
                 /\ last.outcome = "emptyError"
                 /\ last.ret = <<>>
                 /\ heap = <<>>
            ELSE (/\ step > 0
                  /\ stop - start <= MaxInt64
                  /\ ((stop - start) \div step) + 1 <= MaxInt64) =>
                     /\ Returned
                     /\ Size(State, last.ret[1]).ret = <<((stop - start) \div step) + 2>>
                     /\ Now(last.ret[1]).bucketBoundaries = rng.values
                     /\ Now(last.ret[1]).numSamples = 0

\* New has built a histogram of four buckets from a Range that starts below
\* zero and whose step does not divide stop - start
C19_Witness ==
    /\ rng.called
    /\ last.op = "New"
    /\ Returned
    /\ rng.start < 0
    /\ rng.step > 1
    /\ (rng.stop - rng.start) % rng.step # 0
    /\ Size(State, last.ret[1]).ret = <<4>>

\* New has refused the nil result of a Range call with a step of the wrong direction
C19_Refused ==
    /\ rng.called
    /\ last.op = "New"
    /\ rng.step < 0
    /\ rng.start < rng.stop
    /\ last.outcome = "emptyError"

\* C20 as stated: Range is total over int64.  For all start, stop and step it
\* does not fault (the length (stop - start) / step + 1 is never negative) and
\* for a non-degenerate input it returns a strictly monotonic sequence that
\* begins with start and whose elements all lie between start and stop.
C20_RangeIsTotal ==
    rng.called =>
        LET start == rng.start
            stop == rng.stop
            step == rng.step
            v == rng.values
            lo == IF start <= stop THEN start ELSE stop
            hi == IF start <= stop THEN stop ELSE start
        IN  /\ rng.outcome # "panic"
            /\ ~Degenerate(start, stop, step) =>
                   /\ rng.outcome = "ok"
                   /\ Len(v) >= 1
                   /\ v[1] = start
                   /\ \A k \in 1 .. (Len(v) - 1) :
                          IF step > 0 THEN v[k] < v[k + 1] ELSE v[k] > v[k + 1]
                   /\ \A k \in 1 .. Len(v) : lo <= v[k] /\ v[k] <= hi

====
